---- MODULE Spec2Model ----
(***************************************************************************)
(* Consistent hashing with bounded loads (package consistent): the ring    *)
(* of virtual nodes, the load-bounded partition assignment and the lookup  *)
(* surface, guarded by one sync.RWMutex.                                   *)
(*                                                                         *)
(* Byte strings are sequences of byte values (ASCII codes), hashes are     *)
(* natural numbers, Go maps are functions whose DOMAIN is the key set, Go  *)
(* slices are sequences (index i of the slice is element i+1).  A float64  *)
(* load factor is the exact rational num/den; loads are whole numbers.     *)
(***************************************************************************)
EXTENDS Integers, Sequences, FiniteSets, TLC

\* ------------------------------------------------------------------ bounds

\* Largest PartitionCount a configuration is drawn with.
MaxPartitionCount == 3

\* Largest count argument of getClosestN.
MaxCount == 3

\* ------------------------------------------------------- program constants

DefaultPartitionCount == 271
DefaultReplicationFactor == 20
DefaultLoad == [num |-> 5, den |-> 4]

ErrInsufficientMemberCount == "insufficient member count"

\* The panic of distributeWithLoad, and Go's runtime panic on *c.ring[i] or
\* owner.String() when the pointer / interface is nil.
PanicNoRoom == "not enough room to distribute partitions"
PanicNilDeref == "invalid memory address or nil pointer dereference"
NoPanic == "none"

\* ------------------------------------------------------------------ inputs

\* Member names "a", "a1" and "b" as byte strings.
MemberNames == {<<97>>, <<97, 49>>, <<98>>}

\* The pluggable HashFunc: a polynomial hash h <- (h * mul + byte) % mod over
\* the bytes.  The first maps distinct keys used here to distinct hashes, the
\* second is a weak hash on which distinct keys collide.
HashFuncs == {[mul |-> 131, mod |-> 8191], [mul |-> 7, mod |-> 13]}

ReplicationFactors == {1, 2, 11}

\* Config.Load as given by the caller; 0 selects DefaultLoad.
Loads == {[num |-> 0, den |-> 1], [num |-> 1, den |-> 2], [num |-> 1, den |-> 1]}

Configs ==
    [HashFunc : HashFuncs, PartitionCount : 1..MaxPartitionCount,
     ReplicationFactor : ReplicationFactors, Load : Loads]

\* ---------------------------------------------------------- pure functions

RECURSIVE Sum64(_, _)
\* HashFunc.Sum64(data)
Sum64(hf, data) ==
    IF data = <<>> THEN 0
    ELSE (Sum64(hf, SubSeq(data, 1, Len(data) - 1)) * hf.mul + data[Len(data)] + 1) % hf.mod

RECURSIVE Decimal(_)
\* fmt's %d of a non-negative int: its decimal digits as bytes.
Decimal(i) ==
    IF i < 10 THEN <<48 + i>> ELSE Decimal(i \div 10) \o <<48 + (i % 10)>>

\* []byte(fmt.Sprintf("%s%d", name, i))
VNodeKey(name, i) == name \o Decimal(i)

RECURSIVE Pow256(_)
Pow256(k) == IF k = 0 THEN 1 ELSE 256 * Pow256(k - 1)

\* binary.LittleEndian.PutUint64(bs, partID), for partID < 2^24
LittleEndianPutUint64(partID) ==
    [k \in 1..8 |-> IF k <= 3 THEN (partID \div Pow256(k - 1)) % 256 ELSE 0]

\* math.Ceil(float64(q) * load), exact on the rationals used.
CeilMul(q, load) == (q * load.num + load.den - 1) \div load.den

\* New's defaulting of the configuration.
NormalizeConfig(config) ==
    [HashFunc |-> config.HashFunc,
     PartitionCount |-> IF config.PartitionCount = 0 THEN DefaultPartitionCount
                        ELSE config.PartitionCount,
     ReplicationFactor |-> IF config.ReplicationFactor = 0 THEN DefaultReplicationFactor
                           ELSE config.ReplicationFactor,
     Load |-> IF config.Load.num = 0 THEN DefaultLoad ELSE config.Load]

\* averageLoad(): integer division of the partition count by the member
\* count, then the load factor, then math.Ceil.
averageLoad(cfg, mems) ==
    IF Cardinality(mems) = 0 THEN 0
    ELSE CeilMul(cfg.PartitionCount \div Cardinality(mems), cfg.Load)

\* loads[name] of a Go map: 0 for a missing key.
LoadOf(lds, name) == IF name \in DOMAIN lds THEN lds[name] ELSE 0

RECURSIVE InsertSorted(_, _)
InsertSorted(s, h) ==
    IF s = <<>> THEN <<h>>
    ELSE IF h <= s[1] THEN <<h>> \o s
    ELSE <<s[1]>> \o InsertSorted(Tail(s), h)

RECURSIVE SortAsc(_)
\* sort.Slice(c.sortedSet, less): the same values in ascending order.
SortAsc(s) == IF s = <<>> THEN <<>> ELSE InsertSorted(SortAsc(Tail(s)), s[1])

\* A search for the first element above the key.
SearchIdxAbove(ss, key) ==
    LET hits == {i \in 1..Len(ss) : ss[i] > key}
    IN  IF hits = {} THEN Len(ss)
        ELSE (CHOOSE i \in hits : \A j \in hits : i <= j) - 1

\* sort.Search(len(ss), func(i) { return ss[i] >= key }): the least index
\* (0-based) whose element is >= key, len(ss) if none.
SearchIdx(ss, key) ==
    LET hits == {i \in 1..Len(ss) : ss[i] >= key}
    IN  IF hits = {} THEN Len(ss)
        ELSE (CHOOSE i \in hits : \A j \in hits : i <= j) - 1

\* ------------------------------------------------------------------- state

VARIABLES
    config,      \* c.config after New's defaulting (hashFunc, partitionCount included)
    sortedSet,   \* c.sortedSet
    loads,       \* c.loads
    members,     \* c.members: the names (each maps to its member)
    partitions,  \* c.partitions
    ring,        \* c.ring
    mu,          \* c.mu: [w: the writer holding it or NoThread, r: the readers holding it]
    pc,          \* per caller: where it is in its call
    arg,         \* per caller: the argument of its call
    ret,         \* per caller: what its call has computed before its deferred unlock
    newPanic,    \* how New ended: NoPanic, or the panic it raised (no ring is returned)
    construction, \* a caller building a ring by New(nil, config) and one Add per member
    jump,        \* package jump: the frame of a Hash(key, buckets) call
    rendezvous   \* package rendezvous: the fields of r, and how its last call ended

vars == <<config, sortedSet, loads, members, partitions, ring, mu, pc, arg, ret,
          newPanic, construction, jump, rendezvous>>

\* The state outside the ring of package consistent and its callers.
others == <<construction, jump, rendezvous>>

data == <<sortedSet, loads, members, partitions, ring>>

Writers == {"w1", "w2"}
Readers == {"r1"}
Threads == Writers \cup Readers
NoThread == "none"
NoArg == [name |-> <<>>, partID |-> 0, count |-> 0]
NoRet == [kind |-> "none"]

\* A Go map with no entries (also a nil map, which reads the same).
EmptyMap == <<>>

\* ------------------------------------------------------ the assignment pass

\* A placement that lets the member reach avgLoad + 1.
HasRoomAtBound(load, avgLoad) == load <= avgLoad

\* The room test of distributeWithLoad: load+1 <= avgLoad.
HasRoom(load, avgLoad) == load + 1 <= avgLoad

RECURSIVE distributeWithLoad(_, _, _, _, _, _, _, _)
\* distributeWithLoad(partID, idx, partitions, loads): the placement probe,
\* `count` being the value of the local before count++.  Yields the panic, or
\* the two maps after the placement.
distributeWithLoad(cfg, mems, rng, ss, partID, idx, acc, count) ==
    LET avgLoad == averageLoad(cfg, mems)
        cnt == count + 1
    IN  IF cnt >= Len(ss)
        THEN [panic |-> PanicNoRoom, partitions |-> acc.partitions, loads |-> acc.loads]
        ELSE LET i == ss[idx + 1]
             IN  IF i \notin DOMAIN rng
                 THEN [panic |-> PanicNilDeref, partitions |-> acc.partitions,
                       loads |-> acc.loads]
                 ELSE LET member == rng[i]
                          load == LoadOf(acc.loads, member)
                      IN  IF HasRoom(load, avgLoad)
                          THEN [panic |-> NoPanic,
                                partitions |-> (partID :> member) @@ acc.partitions,
                                loads |-> (member :> load + 1) @@ acc.loads]
                          ELSE distributeWithLoad(cfg, mems, rng, ss, partID,
                                   IF idx + 1 >= Len(ss) THEN 0 ELSE idx + 1, acc, cnt)

RECURSIVE distributeFrom(_, _, _, _, _, _)
\* The loop of distributePartitions from partID on.
distributeFrom(cfg, mems, rng, ss, partID, acc) ==
    IF partID >= cfg.PartitionCount \/ acc.panic # NoPanic THEN acc
    ELSE LET key == Sum64(cfg.HashFunc, LittleEndianPutUint64(partID))
             found == SearchIdx(ss, key)
             idx == IF found >= Len(ss) THEN 0 ELSE found
         IN  distributeFrom(cfg, mems, rng, ss, partID + 1,
                 distributeWithLoad(cfg, mems, rng, ss, partID, idx, acc, 0))

\* distributePartitions(): the panic it ends with, or the new tables.
distributePartitions(cfg, mems, rng, ss) ==
    distributeFrom(cfg, mems, rng, ss, 0,
        [panic |-> NoPanic, partitions |-> EmptyMap, loads |-> EmptyMap])

\* ------------------------------------------------------------ ring updates

RECURSIVE addFrom(_, _, _, _, _)
\* The loop of add from replica i on: the ring map and the appended slice.
addFrom(cfg, member, i, rng, ss) ==
    IF i >= cfg.ReplicationFactor THEN [ring |-> rng, sortedSet |-> ss]
    ELSE LET h == Sum64(cfg.HashFunc, VNodeKey(member, i))
         IN  addFrom(cfg, member, i + 1, (h :> member) @@ rng, Append(ss, h))

\* add(member)
add(cfg, member, mems, rng, ss) ==
    LET r == addFrom(cfg, member, 0, rng, ss)
    IN  [ring |-> r.ring, sortedSet |-> SortAsc(r.sortedSet),
         members |-> mems \cup {member}]

RECURSIVE delSlice(_, _)
\* delSlice(val): the slice without the first element equal to val.
delSlice(ss, val) ==
    IF ss = <<>> THEN <<>>
    ELSE IF ss[1] = val THEN Tail(ss)
    ELSE <<ss[1]>> \o delSlice(Tail(ss), val)

\* delete(m, key) of a Go map
MapDelete(m, key) == [k \in DOMAIN m \ {key} |-> m[k]]

RECURSIVE removeFrom(_, _, _, _, _)
\* The loop of Remove from replica i on.
removeFrom(cfg, name, i, rng, ss) ==
    IF i >= cfg.ReplicationFactor THEN [ring |-> rng, sortedSet |-> ss]
    ELSE LET h == Sum64(cfg.HashFunc, VNodeKey(name, i))
         IN  removeFrom(cfg, name, i + 1, MapDelete(rng, h), delSlice(ss, h))

\* ----------------------------------------------------------------- lookups

\* FindPartitionID(key)
FindPartitionID(cfg, key) == Sum64(cfg.HashFunc, key) % cfg.PartitionCount

\* A nil Member (no member has the empty name here).
NoOwner == <<>>

\* getPartitionOwner(partID): the member, or nil when the table has no entry.
getPartitionOwner(parts, partID) ==
    IF partID \in DOMAIN parts THEN parts[partID] ELSE NoOwner

\* The ascending keys of getClosestN: one hash per member name.
RECURSIVE NameKeys(_, _)
NameKeys(cfg, mems) ==
    IF mems = {} THEN <<>>
    ELSE LET m == CHOOSE x \in mems : TRUE
         IN  InsertSorted(NameKeys(cfg, mems \ {m}), Sum64(cfg.HashFunc, m))

\* The kMems maps the loop over c.members can build: each key maps to the
\* member of that hash the (unordered) iteration visits last.
KMemsChoices(cfg, mems) ==
    LET hs == {Sum64(cfg.HashFunc, m) : m \in mems}
    IN  {f \in [hs -> mems] : \A h \in hs : Sum64(cfg.HashFunc, f[h]) = h}

RECURSIVE closestWalk(_, _, _, _, _)
\* The second loop of getClosestN: walk the keys circularly from idx.
closestWalk(keys, kMems, idx, res, count) ==
    IF Len(res) >= count THEN res
    ELSE LET nxt == IF idx + 1 >= Len(keys) THEN 0 ELSE idx + 1
         IN  closestWalk(keys, kMems, nxt, Append(res, kMems[keys[nxt + 1]]), count)

\* getClosestN(partID, count) under the map built as kMems: the members and
\* the error, or the panic.
getClosestN(cfg, mems, parts, kMems, partID, count) ==
    IF count > Cardinality(mems)
    THEN [kind |-> "closest", res |-> <<>>, err |-> ErrInsufficientMemberCount,
          panic |-> NoPanic]
    ELSE LET owner == getPartitionOwner(parts, partID)
         IN  IF mems # {} /\ owner = NoOwner
             THEN \* owner.String() on a nil Member
                  [kind |-> "closest", res |-> <<>>, err |-> "none", panic |-> PanicNilDeref]
             ELSE LET keys == NameKeys(cfg, mems)
                      ownerKey == IF owner \in mems THEN Sum64(cfg.HashFunc, owner) ELSE 0
                      hits == {i \in 1..Len(keys) : keys[i] = ownerKey}
                      found == hits # {}
                      idx == IF found THEN (CHOOSE i \in hits : \A j \in hits : i <= j) - 1
                             ELSE Len(keys)
                      res0 == IF found THEN <<kMems[keys[idx + 1]]>> ELSE <<>>
                  IN  [kind |-> "closest",
                       res |-> closestWalk(keys, kMems, idx, res0, count),
                       err |-> "none", panic |-> NoPanic]

\* ------------------------------------------------------------ construction

\* The member lists New is called with: the nil slice, the empty slice, and
\* the slices of one or two different names.
InitialMembers ==
    {[isNil |-> TRUE, list |-> <<>>]}
    \cup {[isNil |-> FALSE, list |-> l] :
             l \in {<<>>} \cup {<<m>> : m \in MemberNames}
                   \cup {l \in MemberNames \X MemberNames : l[1] # l[2]}}

RECURSIVE addAll(_, _, _)
\* The loop of New over members: add each, in order.
addAll(cfg, ms, c) ==
    IF ms = <<>> THEN c
    ELSE addAll(cfg, Tail(ms), add(cfg, ms[1], c.members, c.ring, c.sortedSet))

\* New(members, config): the panic it ends with, or the fields of the ring.
New(ms, cfg0) ==
    LET cfg == NormalizeConfig(cfg0)
        c == addAll(cfg, ms.list,
                    [ring |-> EmptyMap, sortedSet |-> <<>>, members |-> {}])
        d == IF ~ms.isNil THEN distributePartitions(cfg, c.members, c.ring, c.sortedSet)
             ELSE [panic |-> NoPanic, partitions |-> EmptyMap, loads |-> EmptyMap]
    IN  [config |-> cfg, panic |-> d.panic, ring |-> c.ring, sortedSet |-> c.sortedSet,
         members |-> c.members, partitions |-> d.partitions, loads |-> d.loads]

\* The state New(ms, cfg0) returns, for the lists and configurations given.
InitWith(lists, cfgs) ==
    \E ms \in lists, cfg0 \in cfgs :
        LET c == New(ms, cfg0)
        IN  /\ config = c.config
            /\ newPanic = c.panic
            /\ sortedSet = IF c.panic = NoPanic THEN c.sortedSet ELSE <<>>
            /\ ring = IF c.panic = NoPanic THEN c.ring ELSE EmptyMap
            /\ members = IF c.panic = NoPanic THEN c.members ELSE {}
            /\ partitions = IF c.panic = NoPanic THEN c.partitions ELSE EmptyMap
            /\ loads = IF c.panic = NoPanic THEN c.loads ELSE EmptyMap
            /\ mu = [w |-> NoThread, r |-> {}]
            /\ pc = [t \in Threads |-> "idle"]
            /\ arg = [t \in Threads |-> NoArg]
            /\ ret = [t \in Threads |-> NoRet]

\* No construction script, no Hash call and no Rendezvous in this scenario.
NoConstruction == [given |-> [isNil |-> TRUE, list |-> <<>>], todo |-> <<>>, panic |-> NoPanic]
NoJump == [pc |-> "none"]
NoRendezvous == [pc |-> "none"]

OthersIdle ==
    /\ construction = NoConstruction
    /\ jump = NoJump
    /\ rendezvous = NoRendezvous

Init == InitWith(InitialMembers, Configs) /\ OthersIdle

\* ------------------------------------------------------------------- c.mu

\* A mutex whose Lock never waits.
CanLockAnytime(m) == TRUE

\* sync.RWMutex: Lock waits until no writer and no reader holds the mutex.
CanLock(m) == m.w = NoThread /\ m.r = {}

\* sync.RWMutex: RLock waits until no writer holds the mutex.
CanRLock(m) == m.w = NoThread

\* ------------------------------------------------------------------ Add

\* Add(member): c.mu.Lock()
AddLock(t, member) ==
    /\ newPanic = NoPanic
    /\ pc[t] = "idle"
    /\ CanLock(mu)
    /\ mu' = [mu EXCEPT !.w = t]
    /\ pc' = [pc EXCEPT ![t] = "Add"]
    /\ arg' = [arg EXCEPT ![t] = [NoArg EXCEPT !.name = member]]
    /\ UNCHANGED <<config, data, ret, newPanic>>

\* An Add that never finds the member present.
AddNeverNoop(mems, member) == FALSE

\* Add's membership test: whether Add returns at once.
AddIsNoop(mems, member) == member \in mems

\* Add(member) up to the call of distributePartitions: return at once for a
\* present member, otherwise c.add(member).
AddMember(t) ==
    /\ pc[t] = "Add"
    /\ IF AddIsNoop(members, arg[t].name)
       THEN /\ pc' = [pc EXCEPT ![t] = "Unlock"]
            /\ ret' = [ret EXCEPT ![t] = [kind |-> "noop"]]
            /\ UNCHANGED data
       ELSE LET c == add(config, arg[t].name, members, ring, sortedSet)
            IN  /\ ring' = c.ring
                /\ sortedSet' = c.sortedSet
                /\ members' = c.members
                /\ pc' = [pc EXCEPT ![t] = "distributePartitions"]
                /\ UNCHANGED <<loads, partitions, ret>>
    /\ UNCHANGED <<config, mu, arg, newPanic>>

\* The distributePartitions() call that ends Add and Remove: the tables are
\* replaced when the pass completes, and left alone when it panics.
Distribute(t) ==
    /\ pc[t] = "distributePartitions"
    /\ LET d == distributePartitions(config, members, ring, sortedSet)
       IN  /\ partitions' = IF d.panic = NoPanic THEN d.partitions ELSE partitions
           /\ loads' = IF d.panic = NoPanic THEN d.loads ELSE loads
           /\ ret' = [ret EXCEPT ![t] =
                         IF d.panic = NoPanic THEN [kind |-> "distributed"]
                         ELSE [kind |-> "panic", panic |-> d.panic]]
    /\ pc' = [pc EXCEPT ![t] = "Unlock"]
    /\ UNCHANGED <<config, sortedSet, members, ring, mu, arg, newPanic>>

\* The deferred c.mu.Unlock() of Add and Remove; the call returns or its
\* panic reaches the caller.
Unlock(t) ==
    /\ pc[t] = "Unlock"
    /\ mu' = [mu EXCEPT !.w = NoThread]
    /\ pc' = [pc EXCEPT ![t] = "idle"]
    /\ arg' = [arg EXCEPT ![t] = NoArg]
    /\ ret' = [ret EXCEPT ![t] = NoRet]
    /\ UNCHANGED <<config, data, newPanic>>

\* --------------------------------------------------------------- Remove

\* Remove(name): c.mu.Lock()
RemoveLock(t, name) ==
    /\ newPanic = NoPanic
    /\ pc[t] = "idle"
    /\ CanLock(mu)
    /\ mu' = [mu EXCEPT !.w = t]
    /\ pc' = [pc EXCEPT ![t] = "Remove"]
    /\ arg' = [arg EXCEPT ![t] = [NoArg EXCEPT !.name = name]]
    /\ UNCHANGED <<config, data, ret, newPanic>>

\* A Remove that never finds the name absent.
RemoveNeverNoop(mems, name) == FALSE

\* Remove's membership test: whether Remove returns at once.
RemoveIsNoop(mems, name) == name \notin mems

\* Remove(name) up to the call of distributePartitions: return at once for
\* an absent name; otherwise delete the virtual nodes and the member, and
\* reset the partition table when no member is left.
RemoveMember(t) ==
    /\ pc[t] = "Remove"
    /\ IF RemoveIsNoop(members, arg[t].name)
       THEN /\ pc' = [pc EXCEPT ![t] = "Unlock"]
            /\ ret' = [ret EXCEPT ![t] = [kind |-> "noop"]]
            /\ UNCHANGED data
       ELSE LET c == removeFrom(config, arg[t].name, 0, ring, sortedSet)
            IN  /\ ring' = c.ring
                /\ sortedSet' = c.sortedSet
                /\ members' = members \ {arg[t].name}
                /\ IF members' = {}
                   THEN /\ partitions' = EmptyMap
                        /\ pc' = [pc EXCEPT ![t] = "Unlock"]
                        /\ ret' = [ret EXCEPT ![t] = [kind |-> "emptied"]]
                   ELSE /\ pc' = [pc EXCEPT ![t] = "distributePartitions"]
                        /\ UNCHANGED <<partitions, ret>>
                /\ UNCHANGED loads
    /\ UNCHANGED <<config, mu, arg, newPanic>>

\* -------------------------------------------------------------- lookups

\* The keys LocateKey and GetClosestN are called with ("k", "k1").
LookupKeys == {<<107>>, <<107, 49>>}

\* The lookup calls: the method that takes the read lock, with its arguments
\* (LocateKey and GetClosestN first map their key with FindPartitionID).
LookupCalls ==
    LET ids == (0..(config.PartitionCount - 1))
               \cup {FindPartitionID(config, k) : k \in LookupKeys}
    IN  {[op |-> "GetPartitionOwner", partID |-> p, count |-> 0] : p \in ids}
        \cup {[op |-> "getClosestN", partID |-> p, count |-> n] :
                 p \in ids, n \in 0..MaxCount}
        \cup {[op |-> o, partID |-> 0, count |-> 0] :
                 o \in {"GetMembers", "AverageLoad", "LoadDistribution"}}

\* c.mu.RLock() of a lookup
RLock(t, call) ==
    /\ newPanic = NoPanic
    /\ pc[t] = "idle"
    /\ CanRLock(mu)
    /\ mu' = [mu EXCEPT !.r = @ \cup {t}]
    /\ pc' = [pc EXCEPT ![t] = call.op]
    /\ arg' = [arg EXCEPT ![t] = [NoArg EXCEPT !.partID = call.partID,
                                                !.count = call.count]]
    /\ UNCHANGED <<config, data, ret, newPanic>>

\* What a lookup leaves alone.
LookupFrame(t) ==
    /\ pc' = [pc EXCEPT ![t] = "RUnlock"]
    /\ UNCHANGED <<config, data, mu, arg, newPanic>>

\* GetMembers()
GetMembers(t) ==
    /\ pc[t] = "GetMembers"
    /\ ret' = [ret EXCEPT ![t] = [kind |-> "members", members |-> members]]
    /\ LookupFrame(t)

\* AverageLoad()
AverageLoad(t) ==
    /\ pc[t] = "AverageLoad"
    /\ ret' = [ret EXCEPT ![t] = [kind |-> "avg", avg |-> averageLoad(config, members)]]
    /\ LookupFrame(t)

\* LoadDistribution()
LoadDistribution(t) ==
    /\ pc[t] = "LoadDistribution"
    /\ ret' = [ret EXCEPT ![t] = [kind |-> "loads", loads |-> loads]]
    /\ LookupFrame(t)

\* GetPartitionOwner(partID)
GetPartitionOwner(t) ==
    /\ pc[t] = "GetPartitionOwner"
    /\ ret' = [ret EXCEPT ![t] =
                  [kind |-> "owner", owner |-> getPartitionOwner(partitions, arg[t].partID)]]
    /\ LookupFrame(t)

\* getClosestN(partID, count), for each order in which the loop over the
\* c.members map can visit the members.
GetClosestN(t) ==
    /\ pc[t] = "getClosestN"
    /\ \E kMems \in KMemsChoices(config, members) :
           ret' = [ret EXCEPT ![t] =
                      getClosestN(config, members, partitions, kMems,
                                  arg[t].partID, arg[t].count)]
    /\ LookupFrame(t)

\* The deferred c.mu.RUnlock() of a lookup.
RUnlock(t) ==
    /\ pc[t] = "RUnlock"
    /\ mu' = [mu EXCEPT !.r = @ \ {t}]
    /\ pc' = [pc EXCEPT ![t] = "idle"]
    /\ arg' = [arg EXCEPT ![t] = NoArg]
    /\ ret' = [ret EXCEPT ![t] = NoRet]
    /\ UNCHANGED <<config, data, newPanic>>

\* ------------------------------------------------------------ specification

Next ==
    \/ \E t \in Writers, m \in MemberNames : AddLock(t, m) /\ UNCHANGED others
    \/ \E t \in Writers : AddMember(t) /\ UNCHANGED others
    \/ \E t \in Writers, m \in MemberNames : RemoveLock(t, m) /\ UNCHANGED others
    \/ \E t \in Writers : RemoveMember(t) /\ UNCHANGED others
    \/ \E t \in Writers : Distribute(t) /\ UNCHANGED others
    \/ \E t \in Writers : Unlock(t) /\ UNCHANGED others
    \/ \E t \in Readers, call \in LookupCalls : RLock(t, call) /\ UNCHANGED others
    \/ \E t \in Readers : GetMembers(t) /\ UNCHANGED others
    \/ \E t \in Readers : AverageLoad(t) /\ UNCHANGED others
    \/ \E t \in Readers : LoadDistribution(t) /\ UNCHANGED others
    \/ \E t \in Readers : GetPartitionOwner(t) /\ UNCHANGED others
    \/ \E t \in Readers : GetClosestN(t) /\ UNCHANGED others
    \/ \E t \in Readers : RUnlock(t) /\ UNCHANGED others

Spec == Init /\ [][Next]_vars

\* The scenario of AverageLoad() on its own: rings built by New with up to
\* MaxAverageLoadPartitionCount partitions, on which AverageLoad() is called.
MaxAverageLoadPartitionCount == 23

AverageLoadConfigs ==
    [HashFunc : {[mul |-> 131, mod |-> 8191]},
     PartitionCount : 1..MaxAverageLoadPartitionCount,
     ReplicationFactor : {2}, Load : Loads]

AverageLoadMembers ==
    {[isNil |-> TRUE, list |-> <<>>], [isNil |-> FALSE, list |-> <<<<97>>>>],
     [isNil |-> FALSE, list |-> <<<<97>>, <<98>>>>],
     [isNil |-> FALSE, list |-> <<<<97>>, <<97, 49>>, <<98>>>>]}

InitAverageLoad == InitWith(AverageLoadMembers, AverageLoadConfigs) /\ OthersIdle

NextAverageLoad ==
    \/ \E t \in Readers : RLock(t, [op |-> "AverageLoad", partID |-> 0, count |-> 0]) /\ UNCHANGED others
    \/ \E t \in Readers : AverageLoad(t) /\ UNCHANGED others
    \/ \E t \in Readers : RUnlock(t) /\ UNCHANGED others

SpecAverageLoad == InitAverageLoad /\ [][NextAverageLoad]_vars

\* ------------------------------------------------------------- properties

\* A ring exists and no Add/Remove is in progress.
Quiescent == newPanic = NoPanic /\ mu.w = NoThread

PartitionIDs == 0..(config.PartitionCount - 1)

Range(f) == {f[x] : x \in DOMAIN f}

RECURSIVE SumLoads(_, _)
SumLoads(lds, names) ==
    IF names = {} THEN 0
    ELSE LET m == CHOOSE x \in names : TRUE
         IN  LoadOf(lds, m) + SumLoads(lds, names \ {m})

\* Every partition id has an owner, and the owner is a current member.
Covered ==
    \A p \in PartitionIDs :
        /\ getPartitionOwner(partitions, p) # NoOwner
        /\ getPartitionOwner(partitions, p) \in members

\* C1 (total coverage): whenever a ring exists, no mutation is in progress
\* and at least one member is left, every partition id in [0, P) has an owner
\* in the partition table and that owner is a current member.
C1_TotalCoverage == (Quiescent /\ members # {}) => Covered

\* The load bound: no member above AverageLoad(), and the loads sum to P.
LoadBound ==
    /\ \A m \in members : LoadOf(loads, m) <= averageLoad(config, members)
    /\ \A m \in DOMAIN loads : loads[m] <= averageLoad(config, members)
    /\ SumLoads(loads, members) = config.PartitionCount

\* A distribute pass of caller t completes in this step.
PassCompletes(t) ==
    /\ pc[t] = "distributePartitions"
    /\ pc'[t] = "Unlock"
    /\ ret'[t].kind = "distributed"

\* C2 (load bound): after every completed distribute pass (the one New runs on
\* a non-empty member list, and the one that ends an Add or Remove), every
\* member's load is at most AverageLoad() of the current member set and the
\* loads sum to exactly P.
C2_LoadBound ==
    /\ (newPanic = NoPanic /\ members # {}) => LoadBound
    /\ [][\A t \in Writers : PassCompletes(t) => LoadBound']_vars

\* A pass over two or more members has just completed with a member filled
\* to the bound and another one below it.
C2_Witness ==
    \E t \in Writers :
        /\ pc[t] = "Unlock"
        /\ ret[t].kind = "distributed"
        /\ Cardinality(members) >= 2
        /\ \E m \in members : LoadOf(loads, m) = averageLoad(config, members)
        /\ \E m \in members : LoadOf(loads, m) < averageLoad(config, members)

\* ceil(x / y) of positive integers
CeilDiv(x, y) == (x + y - 1) \div y

\* C3 (AverageLoad value): AverageLoad() returns 0 with no members and
\* otherwise ceil(ceil(P / member_count) * loadFactor); with P = 23 and load
\* factor 1.25 that is 10 for 3 members and 15 for 2 members.
C3_AverageLoadValue ==
    \A t \in Readers :
        (pc[t] = "RUnlock" /\ ret[t].kind = "avg") =>
            /\ ret[t].avg =
                   IF members = {} THEN 0
                   ELSE CeilMul(CeilDiv(config.PartitionCount, Cardinality(members)),
                                config.Load)
            /\ (config.PartitionCount = 23 /\ config.Load = DefaultLoad) =>
                   /\ Cardinality(members) = 3 => ret[t].avg = 10
                   /\ Cardinality(members) = 2 => ret[t].avg = 15

\* C4 (clean removal): whenever the member set is empty (no mutation in
\* progress), GetPartitionOwner finds no owner for any partition id and the
\* load table is empty.
C4_CleanRemoval ==
    (Quiescent /\ members = {}) =>
        /\ \A p \in PartitionIDs : getPartitionOwner(partitions, p) = NoOwner
        /\ DOMAIN loads = {}

\* C5 (idempotent add): an Add of a name that is already a member returns
\* without changing the ring map, sortedSet, the member set, the partition
\* table or the load table.
C5_IdempotentAdd ==
    [][\A t \in Writers :
          /\ (pc[t] = "Add" /\ arg[t].name \in members) =>
                 (UNCHANGED data /\ pc'[t] = "Unlock" /\ ret'[t].kind = "noop")
          /\ (pc[t] = "Unlock" /\ ret[t].kind = "noop") =>
                 (UNCHANGED data /\ pc'[t] = "idle")]_vars

\* An Add of a present member is about to return, on a ring with a table.
C5_Witness ==
    \E t \in Writers :
        /\ pc[t] = "Unlock"
        /\ ret[t].kind = "noop"
        /\ arg[t].name \in members
        /\ Cardinality(members) >= 2
        /\ DOMAIN partitions # {}

\* C6 (remove of a non-member): a Remove of a name that is not a member
\* returns without a panic and without changing the ring map, sortedSet, the
\* member set, the partition table or the load table.
C6_RemoveAbsent ==
    [][\A t \in Writers :
          (pc[t] = "Remove" /\ arg[t].name \notin members) =>
              (UNCHANGED data /\ pc'[t] = "Unlock" /\ ret'[t].kind = "noop")]_vars

\* A Remove of an absent name is about to return, on a non-empty ring.
C6_Witness ==
    \E t \in Writers :
        /\ pc[t] = "Unlock"
        /\ ret[t].kind = "noop"
        /\ arg[t].name \notin members
        /\ members # {}
        /\ DOMAIN partitions # {}

\* No element of the sequence occurs twice.
Distinct(s) == \A i, j \in 1..Len(s) : i # j => s[i] # s[j]

\* C7 (closest-N distinctness): getClosestN(partID, count) returns exactly
\* count pairwise-distinct current members when count <= member_count, and
\* fails with ErrInsufficientMemberCount, returning no members, otherwise.
C7_ClosestNDistinct ==
    \A t \in Readers :
        (pc[t] = "RUnlock" /\ ret[t].kind = "closest") =>
            IF arg[t].count <= Cardinality(members)
            THEN /\ ret[t].panic = NoPanic
                 /\ ret[t].err = "none"
                 /\ Len(ret[t].res) = arg[t].count
                 /\ Distinct(ret[t].res)
                 /\ \A i \in 1..Len(ret[t].res) : ret[t].res[i] \in members
            ELSE /\ ret[t].err = ErrInsufficientMemberCount
                 /\ ret[t].res = <<>>

\* The member set and the partition table match: no table without members,
\* and with members a full table whose owners are members.
TableMatchesMembers ==
    IF members = {} THEN DOMAIN partitions = {}
    ELSE DOMAIN partitions = PartitionIDs /\ Range(partitions) \subseteq members

\* C8 (reader isolation): a lookup holding the read lock never runs while an
\* Add/Remove holds the write lock, and what it reads is the state a whole
\* mutation left: a member set that matches the partition table.
C8_ReaderIsolation ==
    \A t \in Readers :
        t \in mu.r => (mu.w = NoThread /\ TableMatchesMembers)

\* The ring map and the tables name current members only.
MutuallyConsistent ==
    /\ Range(ring) \subseteq members
    /\ Range(partitions) \subseteq members
    /\ DOMAIN loads \subseteq members

\* C9 (error atomicity): when an Add or Remove ends with the panic "not
\* enough room to distribute partitions", the state it leaves once the lock
\* is released is mutually consistent: the owners in the partition table,
\* the keys of the load table and the members in the ring map are all drawn
\* from the member set.
C9_ErrorAtomicity ==
    [][\A t \in Writers :
          (pc[t] = "Unlock" /\ ret[t].kind = "panic" /\ ret[t].panic = PanicNoRoom) =>
              MutuallyConsistent']_vars

\* C10 (ring/sortedSet consistency): whenever no mutation is in progress,
\* the hashes in sortedSet are the keys of the ring map, and sortedSet is
\* strictly ascending.
C10_RingSortedSet ==
    Quiescent =>
        /\ {sortedSet[i] : i \in 1..Len(sortedSet)} = DOMAIN ring
        /\ \A i \in 1..(Len(sortedSet) - 1) : sortedSet[i] < sortedSet[i + 1]

\* C11 (load-table keys): whenever the member set is non-empty and no mutation
\* is in progress, the keys of the load table (what LoadDistribution returns)
\* are exactly the current member names, a member that owns no partition
\* having the entry 0.
C11_LoadTableKeys == (Quiescent /\ members # {}) => DOMAIN loads = members

\* C12 (writer serialization): the steps of two concurrent Add/Remove calls
\* never interleave, so the ring state they leave is that of running the
\* calls one after the other in the order they took the lock: a caller is
\* inside Add/Remove only while it holds the write lock, and while it holds
\* it no other caller is inside a call or enters one, and every change of the
\* ring map, sortedSet, the members and the two tables is a step of the holder.
C12_WriterSerialization ==
    /\ [](\A t \in Writers : pc[t] # "idle" <=> mu.w = t)
    /\ [][/\ data' # data => mu.w # NoThread
          /\ \A t \in Writers :
                 mu.w = t =>
                     /\ \A u \in Threads \ {t} : pc[u] = "idle" /\ pc'[u] = "idle"
                     /\ mu.r = {} /\ mu'.r = {}
                     /\ mu'.w \in {t, NoThread}
                     /\ pc'[t] # pc[t]]_vars

\* One caller holds the write lock at the end of an Add that brought the ring
\* to three members and replaced the tables, the other caller being outside
\* its calls.
C12_Witness ==
    /\ mu.w = "w2"
    /\ pc["w2"] = "Unlock"
    /\ ret["w2"].kind = "distributed"
    /\ pc["w1"] = "idle"
    /\ Cardinality(members) = 3

\* C13 (probe exhaustiveness): when the distribute pass of an Add or Remove
\* fails to place a partition, the probe has found no room on any virtual
\* node of sortedSet; whenever some current member m has load[m] + 1 <=
\* AverageLoad() at that moment, the partition is placed and no error is
\* raised (also on a ring of one virtual node).
C13_ProbeExhaustive ==
    \A t \in Writers :
        pc[t] = "distributePartitions" =>
            LET d == distributePartitions(config, members, ring, sortedSet)
                avgLoad == averageLoad(config, members)
            IN  d.panic # NoPanic =>
                    /\ \A i \in 1..Len(sortedSet) :
                           sortedSet[i] \in DOMAIN ring =>
                               ~(LoadOf(d.loads, ring[sortedSet[i]]) + 1 <= avgLoad)
                    /\ \A m \in members : ~(LoadOf(d.loads, m) + 1 <= avgLoad)

\* The least element of a non-empty set of numbers.
Least(S) == CHOOSE x \in S : \A y \in S : x <= y

\* The position in sortedSet (from 1) where the walk for partition p starts:
\* the first hash >= the hash of p's little-endian bytes, the first position
\* if there is none.
WalkStart(p) ==
    \* (the set is bound once, by CHOOSE over a singleton)
    LET h == Sum64(config.HashFunc, LittleEndianPutUint64(p))
        hits == CHOOSE S \in {{i \in 1..Len(sortedSet) : sortedSet[i] >= h}} : TRUE
    IN  IF hits # {} THEN Least(hits) ELSE 1

\* The position k steps after position start, circularly.
WalkPos(start, k) == ((start - 1 + k) % Len(sortedSet)) + 1

\* The load of m when partition p is placed: the partitions below p it owns.
LoadBefore(p, m) == Cardinality({q \in 0..(p - 1) : partitions[q] = m})

\* The virtual node k steps into p's walk, from position start, has an owner
\* with room under the bound avgLoad.
RoomAt(p, start, k, avgLoad) ==
    /\ sortedSet[WalkPos(start, k)] \in DOMAIN ring
    /\ LoadBefore(p, ring[sortedSet[WalkPos(start, k)]]) + 1 <= avgLoad

\* The steps of p's walk that find room.
RoomSteps(p, start, avgLoad) ==
    {k \in 0..(Len(sortedSet) - 1) : RoomAt(p, start, k, avgLoad)}

\* The table is the one of nearest available successors, and the load table
\* counts one per partition placed.
NearestSuccessors ==
    /\ DOMAIN partitions = PartitionIDs
    /\ \E avgLoad \in {averageLoad(config, members)} :
           \A p \in PartitionIDs :
               \E start \in {WalkStart(p)} :
                   \E steps \in {RoomSteps(p, start, avgLoad)} :
                       /\ steps # {}
                       /\ partitions[p] = ring[sortedSet[WalkPos(start, Least(steps))]]
    /\ DOMAIN loads = Range(partitions)
    /\ \A m \in DOMAIN loads : loads[m] = LoadBefore(config.PartitionCount, m)

MemberOrders ==
    {ord \in [1..Cardinality(members) -> members] :
        /\ \A i, k \in DOMAIN ord : i # k => ord[i] # ord[k]
        /\ \A i, k \in DOMAIN ord :
               i < k => Sum64(config.HashFunc, ord[i]) <= Sum64(config.HashFunc, ord[k])}

\* C15 (closest-N order): for 1 <= count <= member_count and a partition that
\* has an owner, getClosestN returns the owner first, followed by the members
\* that follow the owner, in order and circularly, in the ascending order of
\* hash(member name) over all current members.
C15_ClosestNOrder ==
    \A t \in Readers :
        (/\ pc[t] = "RUnlock"
         /\ ret[t].kind = "closest"
         /\ 1 <= arg[t].count
         /\ arg[t].count <= Cardinality(members)
         /\ getPartitionOwner(partitions, arg[t].partID) # NoOwner) =>
            /\ ret[t].panic = NoPanic
            /\ Len(ret[t].res) = arg[t].count
            /\ ret[t].res[1] = getPartitionOwner(partitions, arg[t].partID)
            /\ \E ord \in MemberOrders :
                   \E i \in DOMAIN ord :
                       /\ ord[i] = ret[t].res[1]
                       /\ \A k \in 1..arg[t].count :
                              ret[t].res[k] = ord[((i + k - 2) % Cardinality(members)) + 1]

\* The hashes of the R virtual nodes of a member.
VNodes(name) ==
    {Sum64(config.HashFunc, VNodeKey(name, i)) : i \in 0..(config.ReplicationFactor - 1)}

\* s without the elements that are in H, the rest in the order of s.
RECURSIVE Without(_, _)
Without(s, H) ==
    IF s = <<>> THEN <<>>
    ELSE IF s[1] \in H THEN Without(Tail(s), H)
    ELSE <<s[1]>> \o Without(Tail(s), H)

\* C16 (removal frame): Remove(name) of a current member deletes from the
\* ring map and from sortedSet exactly the R virtual nodes of that member:
\* every virtual node of every other member is still in the ring map and in
\* sortedSet afterwards, mapped to the member it was mapped to, and the
\* remaining entries of sortedSet keep their relative order.
C16_RemovalFrame ==
    [][\A t \in Writers :
          (pc[t] = "Remove" /\ arg[t].name \in members) =>
              /\ DOMAIN ring' = DOMAIN ring \ VNodes(arg[t].name)
              /\ Len(sortedSet') = Len(sortedSet) - config.ReplicationFactor
              /\ sortedSet' = Without(sortedSet, VNodes(arg[t].name))
              /\ \A m \in members \ {arg[t].name} :
                     \A h \in VNodes(m) :
                         /\ h \in DOMAIN ring => (h \in DOMAIN ring' /\ ring'[h] = ring[h])
                         /\ (\E i \in 1..Len(sortedSet) : sortedSet[i] = h) =>
                                (\E i \in 1..Len(sortedSet') : sortedSet'[i] = h)]_vars

\* ============================================================ package jump

\* A uint64 or int64 does not fit TLC's integers: such a number is the
\* sequence of its digits in base 2^15, least significant first, without
\* leading zeros (<<>> is 0).
Base == 2^15

\* e(v), with v evaluated once however often e uses it.
Let(v, e(_)) == CHOOSE r \in {e(w) : w \in {v}} : TRUE

RECURSIVE TrimFrom(_, _)
TrimFrom(x, n) ==
    IF n = 0 THEN <<>>
    ELSE IF x[n] = 0 THEN TrimFrom(x, n - 1) ELSE SubSeq(x, 1, n)

\* x without leading zeros
Trim(x) == Let(x, LAMBDA a : TrimFrom(a, Len(a)))

RECURSIVE Digits(_)
\* The digits of a natural number that TLC's integers hold.
Digits(n) == IF n = 0 THEN <<>> ELSE <<n % Base>> \o Digits(n \div Base)

\* The number, below 2^30.
Value(x) == IF x = <<>> THEN 0 ELSE IF Len(x) = 1 THEN x[1] ELSE x[1] + Base * x[2]

DigitAt(x, i) == IF i <= Len(x) THEN x[i] ELSE 0

RECURSIVE AddFrom(_, _, _, _)
AddFrom(x, y, i, carry) ==
    IF i > Len(x) /\ i > Len(y) THEN (IF carry = 0 THEN <<>> ELSE <<carry>>)
    ELSE Let(DigitAt(x, i) + DigitAt(y, i) + carry,
             LAMBDA t : <<t % Base>> \o AddFrom(x, y, i + 1, t \div Base))

\* x + y
AddDigits(x, y) == Let(x, LAMBDA a : Let(y, LAMBDA b : AddFrom(a, b, 1, 0)))

RECURSIVE LessEqFrom(_, _, _)
LessEqFrom(x, y, i) ==
    IF i = 0 THEN TRUE
    ELSE IF x[i] # y[i] THEN x[i] < y[i]
    ELSE LessEqFrom(x, y, i - 1)

\* x <= y
LessEq(x, y) ==
    Let(x, LAMBDA a : Let(y, LAMBDA b :
        IF Len(a) # Len(b) THEN Len(a) < Len(b) ELSE LessEqFrom(a, b, Len(a))))

\* x < y
Less(x, y) == ~LessEq(y, x)

RECURSIVE SubFrom(_, _, _, _)
SubFrom(x, y, i, borrow) ==
    IF i > Len(x) THEN <<>>
    ELSE Let(x[i] - DigitAt(y, i) - borrow,
             LAMBDA t : <<(t + Base) % Base>> \o SubFrom(x, y, i + 1, IF t < 0 THEN 1 ELSE 0))

\* x - y, for y <= x
SubDigits(x, y) == Let(x, LAMBDA a : Let(y, LAMBDA b : Trim(SubFrom(a, b, 1, 0))))

RECURSIVE MulSmallFrom(_, _, _, _)
MulSmallFrom(x, d, i, carry) ==
    IF i > Len(x) THEN (IF carry = 0 THEN <<>> ELSE <<carry>>)
    ELSE Let(x[i] * d + carry,
             LAMBDA t : <<t % Base>> \o MulSmallFrom(x, d, i + 1, t \div Base))

\* x * d, for a single digit d
MulSmall(x, d) == Let(x, LAMBDA a : Trim(MulSmallFrom(a, d, 1, 0)))

RECURSIVE MulFrom(_, _, _)
MulFrom(x, y, i) ==
    IF i > Len(y) THEN <<>>
    ELSE AddDigits(MulSmall(x, y[i]), Trim(<<0>> \o MulFrom(x, y, i + 1)))

\* x * y
MulDigits(x, y) == Let(x, LAMBDA a : Let(y, LAMBDA b : MulFrom(a, b, 1)))

RECURSIVE DivSmallFrom(_, _, _, _)
DivSmallFrom(x, d, i, rem) ==
    IF i = 0 THEN <<>>
    ELSE Let(rem * Base + x[i],
             LAMBDA cur : Append(DivSmallFrom(x, d, i - 1, cur % d), cur \div d))

\* floor(x / d), for 0 < d < 2^15
DivSmall(x, d) == Let(x, LAMBDA a : Trim(DivSmallFrom(a, d, Len(a), 0)))

\* x << k
ShiftLeft(x, k) == Trim([i \in 1..(k \div 15) |-> 0] \o MulSmall(x, 2^(k % 15)))

\* x >> k
ShiftRight(x, k) ==
    Let(x, LAMBDA a :
        IF Len(a) <= k \div 15 THEN <<>>
        ELSE DivSmall(SubSeq(a, (k \div 15) + 1, Len(a)), 2^(k % 15)))

\* x modulo 2^w: the wrap-around of a w-bit unsigned integer.
Low(x, w) ==
    Let(x, LAMBDA a :
        IF Len(a) <= w \div 15 THEN a
        ELSE Trim(SubSeq(a, 1, w \div 15) \o <<a[(w \div 15) + 1] % (2^(w % 15))>>))

RECURSIVE SmallBitLen(_)
SmallBitLen(n) == IF n = 0 THEN 0 ELSE 1 + SmallBitLen(n \div 2)

\* The number of binary digits of x.
BitLen(x) ==
    Let(x, LAMBDA a : IF a = <<>> THEN 0 ELSE 15 * (Len(a) - 1) + SmallBitLen(a[Len(a)]))

RECURSIVE FromDecimal(_)
\* The number written in decimal, given as its groups of four decimal
\* digits (18446744073709551615 is <<1844, 6744, 737, 955, 1615>>).
FromDecimal(groups) ==
    IF groups = <<>> THEN <<>>
    ELSE AddDigits(MulSmall(FromDecimal(SubSeq(groups, 1, Len(groups) - 1)), 10000),
                   Digits(groups[Len(groups)]))

RECURSIVE QuotientDigit(_, _, _, _)
\* The largest d in lo..hi with d * y <= x, for lo * y <= x.
QuotientDigit(x, y, lo, hi) ==
    IF lo = hi THEN lo
    ELSE Let((lo + hi + 1) \div 2,
             LAMBDA mid : IF LessEq(MulSmall(y, mid), x) THEN QuotientDigit(x, y, mid, hi)
                          ELSE QuotientDigit(x, y, lo, mid - 1))

RECURSIVE DivFrom(_, _, _)
\* Long division of the digits of x from digit i up: the quotient and the
\* remainder.
DivFrom(x, y, i) ==
    IF i > Len(x) THEN [q |-> <<>>, rem |-> <<>>]
    ELSE Let(DivFrom(x, y, i + 1), LAMBDA high :
         Let(Trim(<<x[i]>> \o high.rem), LAMBDA r1 :
         Let(QuotientDigit(r1, y, 0, Base - 1), LAMBDA d :
             [q |-> Trim(<<d>> \o high.q), rem |-> SubDigits(r1, MulSmall(y, d))])))

\* floor(x / y) and x mod y, for y > 0
DivDigits(x, y) == Let(x, LAMBDA a : Let(y, LAMBDA b : DivFrom(a, b, 1)))

\* The quotient qr of num * 2^scale by den has 55 or 56 binary digits, of
\* which 53 are kept: rounded to nearest, ties to even.
Round(qr, scale) ==
    Let(BitLen(qr.q) - 53, LAMBDA drop :
    Let(ShiftRight(qr.q, drop), LAMBDA kept :
    Let(qr.q[1] % (2^drop), LAMBDA low :
    Let(2^(drop - 1), LAMBDA half :
        [m |-> IF low > half \/ (low = half /\ (qr.rem # <<>> \/ kept[1] % 2 = 1))
               THEN AddDigits(kept, <<1>>) ELSE kept,
         e |-> drop - scale]))))

\* A positive float64 is m * 2^e with m of at most 53 binary digits.  The
\* float64 nearest to num / den (ties to even), as IEEE 754 division and
\* multiplication round their exact result.
Float64(num, den) ==
    Let(num, LAMBDA n : Let(den, LAMBDA d :
    Let(55 - (BitLen(n) - BitLen(d)), LAMBDA scale :
    Let(DivDigits(IF scale >= 0 THEN ShiftLeft(n, scale) ELSE n,
                  IF scale >= 0 THEN d ELSE ShiftLeft(d, -scale)),
        LAMBDA qr : Round(qr, scale)))))

\* float64(x) / float64(y) of integers below 2^53
FloatDiv(x, y) == Float64(x, y)

\* float64(x) * f of an integer below 2^53 and a float64
FloatMul(x, f) ==
    Let(f, LAMBDA g :
        IF g.e >= 0 THEN Float64(ShiftLeft(MulDigits(x, g.m), g.e), <<1>>)
        ELSE Float64(MulDigits(x, g.m), ShiftLeft(<<1>>, -g.e)))

\* int64(f): the integer part
Int64(f) == Let(f, LAMBDA g : IF g.e >= 0 THEN ShiftLeft(g.m, g.e) ELSE ShiftRight(g.m, -g.e))

\* The multiplier of the generator, 2862933555777941757.
JumpMultiplier ==
    FromDecimal(<<286, 2933, 5557, 7794, 1757>>)

\* key*2862933555777941757 + 1 in uint64
NextKey(key) == Low(AddDigits(MulDigits(key, JumpMultiplier), <<1>>), 64)

\* int64(float64(b+1) * (float64(int64(1)<<31) / float64((key>>33)+1)))
NextJ(b, key) ==
    Int64(FloatMul(AddDigits(b, <<1>>),
                   FloatDiv(ShiftLeft(<<1>>, 31), AddDigits(ShiftRight(key, 33), <<1>>))))

\* A loop that goes on while j <= buckets.
JumpContinuesAtBound(j, buckets) == LessEq(j, Digits(buckets))

\* The loop condition of Hash: j < int64(buckets), for buckets >= 1.
JumpContinues(j, buckets) == Less(j, Digits(buckets))

\* Largest bucket count below the ones of the test vectors.
MaxBuckets == 12

\* The keys Hash is called with: 0, 1, 42, 256, 0xDEAD10CC (3735883980) and
\* 2^64 - 1.
JumpKeys ==
    {<<>>, Digits(1), Digits(42), Digits(256),
     FromDecimal(<<37, 3588, 3980>>),
     FromDecimal(<<1844, 6744, 737, 955, 1615>>)}

JumpBuckets == {-666, -10, 0, 57, 666, 1024} \cup (1..MaxBuckets)

\* The ring of package consistent, unused in a scenario of another package.
RingUnused ==
    InitWith({[isNil |-> TRUE, list |-> <<>>]},
             {[HashFunc |-> [mul |-> 131, mod |-> 8191], PartitionCount |-> 0,
               ReplicationFactor |-> 0, Load |-> [num |-> 0, den |-> 1]]})

\* A call Hash(key, buckets) is entered.
InitJump ==
    /\ RingUnused
    /\ construction = NoConstruction
    /\ rendezvous = NoRendezvous
    /\ \E k \in JumpKeys, n \in JumpBuckets :
           jump = [pc |-> "Hash", call |-> [key |-> k, buckets |-> n],
                   key |-> k, buckets |-> n, b |-> <<>>, j |-> <<>>]

\* var b, j int64; if buckets <= 0 { buckets = 1 }
HashEnter ==
    /\ jump.pc = "Hash"
    /\ jump' = [jump EXCEPT !.pc = "for",
                            !.buckets = IF jump.buckets <= 0 THEN 1 ELSE jump.buckets,
                            !.b = <<>>, !.j = <<>>]

\* One round of the loop: b = j; key = key*2862933555777941757 + 1; j = ...
HashLoop ==
    /\ jump.pc = "for"
    /\ JumpContinues(jump.j, jump.buckets)
    /\ jump' = [jump EXCEPT !.b = jump.j,
                            !.key = NextKey(jump.key),
                            !.j = NextJ(jump.j, NextKey(jump.key))]

\* The loop is left: return int32(b)
HashReturn ==
    /\ jump.pc = "for"
    /\ ~JumpContinues(jump.j, jump.buckets)
    /\ jump' = [jump EXCEPT !.pc = "return"]

JumpFrame == UNCHANGED <<config, data, mu, pc, arg, ret, newPanic, construction, rendezvous>>

NextJump ==
    \/ HashEnter /\ JumpFrame
    \/ HashLoop /\ JumpFrame
    \/ HashReturn /\ JumpFrame

\* Hash is a sequential function: a call that can take a step takes it.
SpecJump == InitJump /\ [][NextJump]_vars /\ WF_vars(NextJump)

\* C17 (jump hash range and termination): for every key, Hash(key, buckets)
\* terminates, returns a bucket b with 0 <= b < buckets when buckets >= 1,
\* and returns 0 when buckets <= 0.
C17_JumpRange ==
    /\ <>(jump.pc = "return")
    /\ [](jump.pc = "return" =>
             /\ Len(jump.b) <= 2
             /\ jump.call.buckets >= 1 =>
                    (0 <= Value(jump.b) /\ Value(jump.b) < jump.call.buckets)
             /\ jump.call.buckets <= 0 => Value(jump.b) = 0)

\* Hash(42, 57) has returned 43, after more than one round of the loop.
C17_Witness ==
    /\ jump.pc = "return"
    /\ jump.call = [key |-> Digits(42), buckets |-> 57]
    /\ jump.b = Digits(43)

\* ============================================ New against New(nil) and Adds

\* The member lists of a construction: the nil slice, the empty slice, and
\* the slices of one or two names, a name twice included.
ConstructionLists ==
    {[isNil |-> TRUE, list |-> <<>>]}
    \cup {[isNil |-> FALSE, list |-> l] :
             l \in {<<>>} \cup {<<m>> : m \in MemberNames} \cup (MemberNames \X MemberNames)}

\* c := New(nil, config), with the members of the list still to be added.
InitNew ==
    /\ InitWith({[isNil |-> TRUE, list |-> <<>>]}, Configs)
    /\ \E ms \in ConstructionLists :
           construction = [given |-> ms, todo |-> ms.list, panic |-> NoPanic]
    /\ jump = NoJump
    /\ rendezvous = NoRendezvous

\* for _, m := range members { c.Add(m) }: the next call of Add is entered.
ScriptAdd ==
    /\ construction.todo # <<>>
    /\ construction.panic = NoPanic
    /\ AddLock("w1", Head(construction.todo))
    /\ construction' = [construction EXCEPT !.todo = Tail(@)]
    /\ UNCHANGED <<jump, rendezvous>>

\* The Add returns, or its panic ends the caller.
ScriptUnlock ==
    /\ Unlock("w1")
    /\ construction' = [construction EXCEPT
                           !.panic = IF ret["w1"].kind = "panic" THEN ret["w1"].panic ELSE @]
    /\ UNCHANGED <<jump, rendezvous>>

NextNew ==
    \/ ScriptAdd
    \/ AddMember("w1") /\ UNCHANGED others
    \/ Distribute("w1") /\ UNCHANGED others
    \/ ScriptUnlock

SpecNew == InitNew /\ [][NextNew]_vars

\* New(nil, config) and the Adds of the list are over.
ScriptDone ==
    /\ pc["w1"] = "idle"
    /\ construction.todo = <<>> \/ construction.panic # NoPanic

\* C18 (construction equivalence): New(members, config) ends as New(nil,
\* config) followed by Add(m) for each m of members in order ends: one fails
\* only if the other does, and otherwise both yield the same ring map,
\* sortedSet, member set, partition table and load table; so for the empty
\* non-nil list and for a list with a name twice.
C18_ConstructionEquivalence ==
    ScriptDone =>
        LET c == New(construction.given, config)
        IN  /\ c.panic = NoPanic <=> construction.panic = NoPanic
            /\ c.panic = NoPanic =>
                   /\ ring = c.ring
                   /\ sortedSet = c.sortedSet
                   /\ members = c.members
                   /\ partitions = c.partitions
                   /\ loads = c.loads

\* ====================================================== history independence

\* The members of mems, each once, in one fixed order.
FixedOrder(mems) ==
    CHOOSE l \in [1..Cardinality(mems) -> mems] : Range(l) = mems

\* The ring map, sortedSet and tables that the member set alone determines:
\* those of an empty ring when there is no member, and otherwise those of the
\* members added in the fixed order and distributed in one pass.
FromMembers(cfg, mems) ==
    LET c == addAll(cfg, FixedOrder(mems),
                    [ring |-> EmptyMap, sortedSet |-> <<>>, members |-> {}])
        d == IF mems = {}
             THEN [panic |-> NoPanic, partitions |-> EmptyMap, loads |-> EmptyMap]
             ELSE distributePartitions(cfg, mems, c.ring, c.sortedSet)
    IN  [ring |-> c.ring, sortedSet |-> c.sortedSet,
         partitions |-> d.partitions, loads |-> d.loads]

\* The caller's Add or Remove has changed the member set and succeeded.
Succeeded(t) == pc[t] = "Unlock" /\ ret[t].kind \in {"distributed", "emptied"}

\* C19 (history independence): when an Add or Remove has succeeded, the ring
\* map, sortedSet, the partition table and the load table are those that the
\* configuration and the resulting member set determine, whatever calls came
\* before.
C19_HistoryIndependence ==
    \A t \in Writers :
        Succeeded(t) =>
            LET f == FromMembers(config, members)
            IN  /\ ring = f.ring
                /\ sortedSet = f.sortedSet
                /\ partitions = f.partitions
                /\ loads = f.loads

\* ======================================================= package rendezvous

\* The panic of an index expression s[i] with i outside 0..len(s)-1.
PanicIndexOutOfRange == "index out of range"

\* Most nodes in nStr: Add is not called on a longer slice.
MaxNodes == 4

\* The node names: "a", "a1" and "b".
RendezvousNodes == MemberNames

\* The hash function the Rendezvous is built with.
RendezvousHash(s) == Sum64([mul |-> 131, mod |-> 8191], s)

\* s[i] of a Go slice, indexed from 0.
At(s, i) == s[i + 1]

\* Whether the index expression s[i] is in range.
InRange(s, i) == 0 <= i /\ i < Len(s)

\* m[key] = val of a Go map
MapSet(m, key, val) == (key :> val) @@ m

\* m[key] of a map of ints: the zero value for an absent key
MapGet(m, key) == IF key \in DOMAIN m THEN m[key] ELSE 0

RECURSIVE newNodes(_, _, _)
\* The loop of New from index i on: r.nodes[n] = i
newNodes(nodes, i, m) ==
    IF i >= Len(nodes) THEN m
    ELSE newNodes(nodes, i + 1, MapSet(m, At(nodes, i), i))

\* New(nodes, hash)
RendezvousNew(nodes) ==
    [nodes |-> newNodes(nodes, 0, EmptyMap),
     nStr |-> nodes,
     nHash |-> [i \in 1..Len(nodes) |-> RendezvousHash(nodes[i])],
     last |-> [op |-> "New", node |-> <<>>, panic |-> NoPanic]]

\* The node lists New is called with: up to two names, a name twice included.
RendezvousLists ==
    {<<>>} \cup {<<n>> : n \in RendezvousNodes} \cup (RendezvousNodes \X RendezvousNodes)

InitRendezvous ==
    /\ RingUnused
    /\ construction = NoConstruction
    /\ jump = NoJump
    /\ \E nodes \in RendezvousLists : rendezvous = RendezvousNew(nodes)

\* r.Add(node)
RendezvousAdd(node) ==
    /\ Len(rendezvous.nStr) < MaxNodes
    /\ rendezvous' = [nodes |-> MapSet(rendezvous.nodes, node, Len(rendezvous.nStr)),
                      nStr |-> Append(rendezvous.nStr, node),
                      nHash |-> Append(rendezvous.nHash, RendezvousHash(node)),
                      last |-> [op |-> "Add", node |-> node, panic |-> NoPanic]]

\* r.Remove(node): the index expressions r.nStr[l], r.nHash[l] and
\* r.nStr[nIdx] panic when out of range, and the call ends there.
RendezvousRemove(node) ==
    LET r == rendezvous
        nIdx == MapGet(r.nodes, node)
        l == Len(r.nStr)
        failed == [r EXCEPT !.last = [op |-> "Remove", node |-> node,
                                      panic |-> PanicIndexOutOfRange]]
    IN  rendezvous' =
            IF ~InRange(r.nStr, l) \/ ~InRange(r.nStr, nIdx) THEN failed
            ELSE LET nStr1 == SubSeq([r.nStr EXCEPT ![nIdx + 1] = At(r.nStr, l)], 1, l)
                 IN  IF ~InRange(r.nHash, l) \/ ~InRange(r.nHash, nIdx)
                     THEN [failed EXCEPT !.nStr = nStr1]
                     ELSE LET nHash1 == SubSeq([r.nHash EXCEPT ![nIdx + 1] = At(r.nHash, l)], 1, l)
                              moved == At(nStr1, nIdx)
                          IN  [nodes |-> MapSet(MapDelete(r.nodes, node), moved, nIdx),
                               nStr |-> nStr1,
                               nHash |-> nHash1,
                               last |-> [op |-> "Remove", node |-> node, panic |-> NoPanic]]

RendezvousFrame == UNCHANGED <<config, data, mu, pc, arg, ret, newPanic, construction, jump>>

NextRendezvous ==
    \/ \E node \in RendezvousNodes : RendezvousAdd(node) /\ RendezvousFrame
    \/ \E node \in RendezvousNodes : RendezvousRemove(node) /\ RendezvousFrame

SpecRendezvous == InitRendezvous /\ [][NextRendezvous]_vars

\* nStr and nHash are as long as the node map, nodes[nStr[i]] = i and
\* nHash[i] = hash(nStr[i]) for every index i.
RendezvousConsistent(r) ==
    /\ Len(r.nStr) = Cardinality(DOMAIN r.nodes)
    /\ Len(r.nHash) = Cardinality(DOMAIN r.nodes)
    /\ \A i \in 0..(Len(r.nStr) - 1) :
           /\ At(r.nStr, i) \in DOMAIN r.nodes
           /\ r.nodes[At(r.nStr, i)] = i
           /\ At(r.nHash, i) = RendezvousHash(At(r.nStr, i))

\* C20 (rendezvous membership consistency): after New and after every Add
\* and Remove, nStr and nHash are as long as the node map, nodes[nStr[i]] = i
\* and nHash[i] = hash(nStr[i]) for every i; a Remove(node) ends without
\* failure, with the previous node set minus node when node was present and
\* with the node set unchanged when it was absent.
C20_RendezvousConsistency ==
    /\ [](RendezvousConsistent(rendezvous))
    /\ [][\A node \in RendezvousNodes :
             (rendezvous'.last.op = "Remove" /\ rendezvous'.last.node = node) =>
                 /\ rendezvous'.last.panic = NoPanic
                 /\ DOMAIN rendezvous'.nodes = DOMAIN rendezvous.nodes \ {node}]_vars

====
